---------------------------- MODULE Spec2Model ----------------------------
(***************************************************************************)
(* Routing server / FLX engine: the request-correlation machinery of      *)
(* src/telecom_router (routing_server.cpp, flx_engine.cpp, protocol.hpp,  *)
(* ipc_mq.hpp, thread_pool.hpp, common.hpp).                               *)
(*                                                                         *)
(* Threads are interleaved statement by statement: one action per         *)
(* critical section or per statement that touches state shared with       *)
(* another thread.  Strings and buffers are sequences of bytes (0..255).   *)
(***************************************************************************)
EXTENDS Integers, Sequences, FiniteSets, TLC

(***************************************************************************)
(* Bounds of the model.  MAX_PENDING, msgsize, maxmsg and SendAttempts    *)
(* stand for the program's 100000 (routing_server.cpp:24), 8192 and 2048  *)
(* (routing_server.cpp:66) and 1000 (routing_server.cpp:252), scaled down. *)
(***************************************************************************)
MAX_PENDING == 1
msgsize == 26
maxmsg == 1
SendAttempts == 2
hardware_concurrency == 1
MaxFd == 1
MaxLines == 2
MaxBurst == 4
MaxInbuf == 1

\* std::max<size_t>(2, std::thread::hardware_concurrency())
nworkers == IF hardware_concurrency > 2 THEN hardware_concurrency ELSE 2

\* connections accepted in one run: one more than there are descriptors,
\* so that a descriptor number is used again
MaxConns == MaxFd + 1
MaxSlots == IF MaxBurst > MaxLines THEN MaxBurst ELSE MaxLines

(***************************************************************************)
(* Program constants.                                                      *)
(***************************************************************************)
HdrSize == 24
MAGIC == 1414679889
VERSION == 1
RouteReq == 1
RouteResp == 2
NL == 10
CR == 13

Bytes == 0..255

\* The server's literal responses, abbreviated to one byte each
\* ("B"USY/overload, "E"RROR/mq_full, "T"IMEOUT/flx_no_response).
BUSY_RESP == <<66>>
MQ_FULL_RESP == <<69>>
TIMEOUT_RESP == <<84>>

(***************************************************************************)
(* Framing codec (protocol.hpp).                                           *)
(***************************************************************************)
RECURSIVE LE(_, _)
\* n stored in k bytes, least significant first (memcpy of a host integer)
LE(n, k) == IF k = 0 THEN <<>> ELSE <<n % 256>> \o LE(n \div 256, k - 1)

RECURSIVE FromLE(_)
FromLE(b) == IF b = <<>> THEN 0 ELSE b[1] + 256 * FromLE(Tail(b))

Slice(b, from, to) == [i \in 1..(to - from + 1) |-> b[from + i - 1]]

\* struct MsgHdr, with its default member initialisers
MsgHdr == [magic |-> MAGIC, version |-> VERSION, type |-> 0, corr_id |-> 0,
           payload_len |-> 0, reserved |-> 0]

HdrBytes(h) == LE(h.magic, 4) \o LE(h.version, 2) \o LE(h.type, 2)
               \o LE(h.corr_id, 8) \o LE(h.payload_len, 4) \o LE(h.reserved, 4)

HdrOf(data) == [magic       |-> FromLE(Slice(data, 1, 4)),
                version     |-> FromLE(Slice(data, 5, 6)),
                type        |-> FromLE(Slice(data, 7, 8)),
                corr_id     |-> FromLE(Slice(data, 9, 16)),
                payload_len |-> FromLE(Slice(data, 17, 20)),
                reserved    |-> FromLE(Slice(data, 21, 24))]

\* a pack that counts the header in payload_len
pack_total_len(t, corr_id, payload) ==
    HdrBytes([MsgHdr EXCEPT !.type = t, !.corr_id = corr_id,
                            !.payload_len = HdrSize + Len(payload)]) \o payload

pack(t, corr_id, payload) ==
    HdrBytes([MsgHdr EXCEPT !.type = t, !.corr_id = corr_id,
                            !.payload_len = Len(payload)]) \o payload

\* an unpack without the magic and version test
unpack_any_magic(data, h0, payload0) ==
    IF Len(data) < HdrSize
    THEN [ok |-> FALSE, h |-> h0, payload |-> payload0]
    ELSE LET h == HdrOf(data) IN
         IF HdrSize + h.payload_len # Len(data)
         THEN [ok |-> FALSE, h |-> h, payload |-> payload0]
         ELSE [ok |-> TRUE, h |-> h,
               payload |-> Slice(data, HdrSize + 1, HdrSize + h.payload_len)]

\* unpack(data, len, h, payload): h0 and payload0 are the caller's output
\* objects before the call; the result holds them as they are after it.
unpack(data, h0, payload0) ==
    IF Len(data) < HdrSize
    THEN [ok |-> FALSE, h |-> h0, payload |-> payload0]
    ELSE LET h == HdrOf(data) IN
         IF h.magic # MAGIC \/ h.version # VERSION
         THEN [ok |-> FALSE, h |-> h, payload |-> payload0]
         ELSE IF HdrSize + h.payload_len # Len(data)
         THEN [ok |-> FALSE, h |-> h, payload |-> payload0]
         ELSE [ok |-> TRUE, h |-> h,
               payload |-> Slice(data, HdrSize + 1, HdrSize + h.payload_len)]

(***************************************************************************)
(* State.                                                                  *)
(***************************************************************************)
VARIABLES
    el,        \* event loop: pc and fd of the event being handled
    conns,     \* connection table: fd -> Conn (open = the key is in the map)
    nextInst,  \* number of connections accepted so far, + 1
    g,         \* next_corr_id's counter
    budget,    \* number of non-empty lines the clients have yet to send
    nslot,     \* number of Pending objects made so far
    pending,   \* pending table: corr id -> Pending object (0 = no entry)
    slot,      \* the Pending objects
    q_,        \* ThreadPool::q_
    wk,        \* the worker threads
    conns_mu,  \* the workers' static mutex: 0 or the worker holding it
    mq_req,    \* request queue
    mq_resp,   \* response queue
    eng,       \* the engine: the response frame it is about to send, or <<>>
    disp,      \* the dispatcher: the slot it took and the payload it holds
    crashed,   \* the server process was ended by a fault
    issued,    \* history: the ids next_corr_id returned, in order
    dupKey,    \* history: an emplace found its key already in the table
    owed,      \* history: per connection, the bytes enqueued and not yet written
    wire_ok,   \* history: every write so far put the next owed bytes on the socket
    cx         \* exercise of the codec or of one engine turn: inputs and results

vars == <<el, conns, nextInst, g, budget, nslot, pending, slot, q_, wk, conns_mu,
          mq_req, mq_resp, eng, disp, crashed, issued, dupKey, owed, wire_ok, cx>>

FDs == 1..MaxFd
Insts == 1..MaxConns
Workers == 1..nworkers
SlotIds == 1..MaxSlots
CorrIds == 1..(MaxSlots + 1)

\* struct Conn; inst names the accepted connection (history)
NoConn == [open |-> FALSE, inst |-> 0, inbuf |-> <<>>, outq |-> <<>>,
           want_write |-> FALSE]
Conn(i) == [open |-> TRUE, inst |-> i, inbuf |-> <<>>, outq |-> <<>>,
            want_write |-> FALSE]

\* struct Pending
Pending == [done |-> FALSE, resp |-> <<>>]

\* A worker with no task.  src, to, on and err are history: the connection
\* the task's line was read on, whether its wait timed out, the connection
\* its response was enqueued on, and whether the thread's last task ended
\* in its catch clause (log_err).
IdleWorker == [pc |-> "idle", fd |-> 0, corr |-> 0, pend |-> 0, req |-> <<>>,
               k |-> 0, sent |-> FALSE, resp_line |-> <<>>, src |-> 0,
               to |-> FALSE, on |-> 0, err |-> FALSE]

\* dropped (history): the dispatcher has discarded a frame
NoDisp == [p |-> 0, payload |-> <<>>, dropped |-> FALSE]

ElPoll == [pc |-> "poll", fd |-> 0]

CxIdle == [pc |-> "off"]

\* The state after construction; lim is the number of lines to come.
SrvInit(lim) ==
    /\ el = ElPoll
    /\ conns = [fd \in FDs |-> NoConn]
    /\ nextInst = 1
    /\ g = 1
    /\ budget = lim
    /\ nslot = 0
    /\ pending = [c \in CorrIds |-> 0]
    /\ slot = [r \in SlotIds |-> Pending]
    /\ q_ = <<>>
    /\ wk = [w \in Workers |-> IdleWorker]
    /\ conns_mu = 0
    /\ mq_req = <<>>
    /\ mq_resp = <<>>
    /\ eng = <<>>
    /\ disp = NoDisp
    /\ crashed = FALSE
    /\ issued = <<>>
    /\ dupKey = FALSE
    /\ owed = [i \in Insts |-> <<>>]
    /\ wire_ok = TRUE

Init == SrvInit(MaxLines) /\ cx = CxIdle

(***************************************************************************)
(* Helpers.                                                                *)
(***************************************************************************)
\* trim_newline
RECURSIVE trim_newline(_)
trim_newline(s) ==
    IF s # <<>> /\ (s[Len(s)] = NL \/ s[Len(s)] = CR)
    THEN trim_newline(SubSeq(s, 1, Len(s) - 1))
    ELSE s

\* inbuf.find('\n'): the position of the first newline, 0 for npos
FindNL(s) == IF \E i \in 1..Len(s) : s[i] = NL
             THEN CHOOSE i \in 1..Len(s) : s[i] = NL /\ \A j \in 1..(i - 1) : s[j] # NL
             ELSE 0

\* pending.size()
PendingSize == Cardinality({c \in CorrIds : pending[c] # 0})

\* no backpressure at all
OverloadedNever(n) == FALSE
\* the backpressure test, pending.size() > MAX_PENDING
Overloaded(n) == n > MAX_PENDING

\* a counter that is read and not advanced
next_corr_id_stuck == [id |-> g, g |-> g]
\* next_corr_id: fetch_add returns the counter's value before the increment
next_corr_id == [id |-> g, g |-> g + 1]

\* close_conn: the entry leaves the table (epoll registration and the
\* descriptor go with it)
close_conn(cs, fd) == [cs EXCEPT ![fd] = NoConn]

\* enable_write: no entry, no effect
enable_write(cs, fd, on) ==
    IF cs[fd].open THEN [cs EXCEPT ![fd].want_write = on] ELSE cs

\* accept returns the lowest descriptor number not in use
LowestFree == CHOOSE fd \in FDs : ~conns[fd].open /\ \A f \in FDs : f < fd => conns[f].open

\* shared_ptr<Pending>: an object is held by the table, by a queued or
\* running task, or by the dispatcher; it is freed with its last holder.
Held(r, pend, q, workers, d) ==
    \/ \E c \in CorrIds : pend[c] = r
    \/ \E i \in 1..Len(q) : q[i].pend = r
    \/ \E w \in Workers : workers[w].pend = r
    \/ d.p = r
Release(s, pend, q, workers, d) ==
    [r \in SlotIds |-> IF Held(r, pend, q, workers, d) THEN s[r] ELSE Pending]

\* history: forget what was owed to a connection that is closed
Forget(o, i) == [o EXCEPT ![i] = <<>>]

(***************************************************************************)
(* Inputs.  What one read() returns: a short line, a line whose frame is   *)
(* longer than msgsize, a blank line, and a piece of a line.               *)
(***************************************************************************)
\* the shortest line whose frame is longer than msgsize
LongLine == [i \in 1..(msgsize - HdrSize + 1) |-> 97] \o <<NL>>

Chunks == {<<97, NL>>, LongLine, <<CR, NL>>, <<97>>}

(***************************************************************************)
(* Event loop (routing_server.cpp:168-312).                                *)
(***************************************************************************)
\* listen_fd is readable: accept, register for EPOLLIN, conns.emplace
ELAccept ==
    /\ ~crashed /\ el.pc = "poll"
    /\ nextInst <= MaxConns
    /\ \E fd \in FDs : ~conns[fd].open
    /\ conns' = [conns EXCEPT ![LowestFree] = Conn(nextInst)]
    /\ nextInst' = nextInst + 1
    /\ UNCHANGED <<el, g, budget, nslot, pending, slot, q_, wk, conns_mu, mq_req,
                   mq_resp, eng, disp, crashed, issued, dupKey, owed, wire_ok, cx>>

\* EPOLLHUP | EPOLLERR on a connection in the table
ELHup(fd) ==
    /\ ~crashed /\ el.pc = "poll"
    /\ conns[fd].open
    /\ conns' = close_conn(conns, fd)
    /\ owed' = Forget(owed, conns[fd].inst)
    /\ UNCHANGED <<el, nextInst, g, budget, nslot, pending, slot, q_, wk, conns_mu,
                   mq_req, mq_resp, eng, disp, crashed, issued, dupKey, wire_ok, cx>>

\* EPOLLIN, read() returns 0 or an error other than EAGAIN: close_conn and
\* leave the read loop.  With EPOLLOUT in the same event the write step
\* follows on the erased entry (pc "stale").
ELReadClose(fd, out) ==
    /\ ~crashed /\ el.pc = "poll"
    /\ conns[fd].open
    /\ out => conns[fd].want_write
    /\ conns' = close_conn(conns, fd)
    /\ owed' = Forget(owed, conns[fd].inst)
    /\ el' = IF out THEN [pc |-> "stale", fd |-> fd] ELSE el
    /\ UNCHANGED <<nextInst, g, budget, nslot, pending, slot, q_, wk, conns_mu, mq_req,
                   mq_resp, eng, disp, crashed, issued, dupKey, wire_ok, cx>>

\* The write step through the iterator of an erased entry: the freed Conn
\* reads as an empty queue, or as a non-empty one (write() on the closed
\* descriptor fails, close_conn again changes nothing), or the access
\* faults and ends the process.
ELWriteStale ==
    /\ ~crashed /\ el.pc = "stale"
    /\ \E fault \in BOOLEAN : crashed' = fault
    /\ el' = ElPoll
    /\ UNCHANGED <<conns, nextInst, g, budget, nslot, pending, slot, q_, wk, conns_mu,
                   mq_req, mq_resp, eng, disp, issued, dupKey, owed, wire_ok, cx>>

\* EPOLLIN, read() returns a chunk and then EAGAIN: append to inbuf, split
\* off the complete line, trim it, and run the request path on it
\* (backpressure test, else next_corr_id, pending.emplace, pool.submit).
ELRead(fd, chunk, out) ==
    /\ ~crashed /\ el.pc = "poll"
    /\ conns[fd].open
    /\ out => conns[fd].want_write
    /\ LET c     == conns[fd]
           buf   == c.inbuf \o chunk
           pos   == FindNL(buf)
           line  == IF pos = 0 THEN <<>> ELSE trim_newline(SubSeq(buf, 1, pos))
           rest  == IF pos = 0 THEN buf ELSE SubSeq(buf, pos + 1, Len(buf))
           r     == nslot + 1
           nc    == next_corr_id
       IN
       /\ Len(rest) <= MaxInbuf
       /\ el' = IF out THEN [pc |-> "write", fd |-> fd] ELSE el
       /\ IF line = <<>>
          THEN /\ conns' = [conns EXCEPT ![fd].inbuf = rest]
               /\ UNCHANGED <<g, budget, nslot, pending, slot, q_, issued, dupKey, owed>>
          ELSE /\ budget > 0
               /\ budget' = budget - 1
               /\ IF Overloaded(PendingSize)
                  THEN /\ conns' = enable_write(
                                     [conns EXCEPT ![fd].inbuf = rest,
                                                   ![fd].outq = Append(@, BUSY_RESP \o <<NL>>)],
                                     fd, TRUE)
                       /\ owed' = [owed EXCEPT ![c.inst] = @ \o BUSY_RESP \o <<NL>>]
                       /\ UNCHANGED <<g, nslot, pending, slot, q_, issued, dupKey>>
                  ELSE /\ nc.id \in CorrIds
                       /\ conns' = [conns EXCEPT ![fd].inbuf = rest]
                       /\ g' = nc.g
                       /\ nslot' = r
                       /\ issued' = Append(issued, nc.id)
                       /\ slot' = [slot EXCEPT ![r] = Pending]
                       /\ IF pending[nc.id] # 0
                          THEN dupKey' = TRUE /\ UNCHANGED pending
                          ELSE pending' = [pending EXCEPT ![nc.id] = r] /\ UNCHANGED dupKey
                       /\ q_' = Append(q_, [fd |-> fd, corr |-> nc.id, pend |-> r,
                                            req |-> line, src |-> c.inst])
                       /\ UNCHANGED owed
    /\ UNCHANGED <<nextInst, wk, conns_mu, mq_req, mq_resp, eng, disp, crashed, wire_ok,
                   cx>>

\* an event loop that serves EPOLLOUT only once the pool is idle
ELWritableAfterPool(fd) ==
    /\ ~crashed /\ el.pc = "poll"
    /\ q_ = <<>> /\ \A w \in Workers : wk[w].pc = "idle"
    /\ conns[fd].open /\ conns[fd].want_write
    /\ el' = [pc |-> "write", fd |-> fd]
    /\ UNCHANGED <<conns, nextInst, g, budget, nslot, pending, slot, q_, wk, conns_mu,
                   mq_req, mq_resp, eng, disp, crashed, issued, dupKey, owed, wire_ok, cx>>

\* EPOLLOUT alone
ELWritable(fd) ==
    /\ ~crashed /\ el.pc = "poll"
    /\ conns[fd].open /\ conns[fd].want_write
    /\ el' = [pc |-> "write", fd |-> fd]
    /\ UNCHANGED <<conns, nextInst, g, budget, nslot, pending, slot, q_, wk, conns_mu,
                   mq_req, mq_resp, eng, disp, crashed, issued, dupKey, owed, wire_ok, cx>>

\* a resumption that starts one byte late
UnwrittenSkip(s, w) == SubSeq(s, w + 2, Len(s))
\* c.outq.front() = s.substr(w): what is left of a frame after w bytes
Unwritten(s, w) == SubSeq(s, w + 1, Len(s))

\* history: bytes b appear on the socket of connection i
OnWire(b, i) ==
    /\ wire_ok' = (wire_ok /\ Len(b) <= Len(owed[i]) /\ b = SubSeq(owed[i], 1, Len(b)))
    /\ owed' = [owed EXCEPT ![i] = SubSeq(@, Len(b) + 1, Len(@))]

\* One turn of while (!c.outq.empty()): w = -1 is EAGAIN, w = -2 another
\* error, 1..size-1 a partial write, size a full one.
ELWrite(w) ==
    /\ ~crashed /\ el.pc = "write"
    /\ LET fd == el.fd
           c  == conns[fd]
       IN
       IF c.outq = <<>>
       THEN /\ w = -1
            /\ el' = [el EXCEPT !.pc = "wclr"]
            /\ UNCHANGED <<conns, owed, wire_ok>>
       ELSE LET s == Head(c.outq) IN
            /\ w \in {-2, -1} \cup 1..Len(s)
            /\ CASE w = -1 ->
                      /\ el' = [el EXCEPT !.pc = "wclr"]
                      /\ UNCHANGED <<conns, owed, wire_ok>>
                 [] w = -2 ->
                      /\ conns' = close_conn(conns, fd)
                      /\ owed' = Forget(owed, c.inst)
                      /\ el' = [el EXCEPT !.pc = "wclr"]
                      /\ UNCHANGED wire_ok
                 [] w >= 1 /\ w < Len(s) ->
                      /\ conns' = [conns EXCEPT ![fd].outq[1] = Unwritten(s, w)]
                      /\ OnWire(SubSeq(s, 1, w), c.inst)
                      /\ el' = [el EXCEPT !.pc = "wclr"]
                 [] w = Len(s) ->
                      /\ conns' = [conns EXCEPT ![fd].outq = Tail(@)]
                      /\ OnWire(s, c.inst)
                      /\ UNCHANGED el
    /\ UNCHANGED <<nextInst, g, budget, nslot, pending, slot, q_, wk, conns_mu, mq_req,
                   mq_resp, eng, disp, crashed, issued, dupKey, cx>>

\* if (conns.find(fd) != conns.end()) if (c.outq.empty()) ...
ELWClrTest ==
    /\ ~crashed /\ el.pc = "wclr"
    /\ el' = IF conns[el.fd].open /\ conns[el.fd].outq = <<>>
             THEN [el EXCEPT !.pc = "wclr2"]
             ELSE ElPoll
    /\ UNCHANGED <<conns, nextInst, g, budget, nslot, pending, slot, q_, wk, conns_mu,
                   mq_req, mq_resp, eng, disp, crashed, issued, dupKey, owed, wire_ok, cx>>

\* ... enable_write(fd, false)
ELWClr ==
    /\ ~crashed /\ el.pc = "wclr2"
    /\ conns' = enable_write(conns, el.fd, FALSE)
    /\ el' = ElPoll
    /\ UNCHANGED <<nextInst, g, budget, nslot, pending, slot, q_, wk, conns_mu, mq_req,
                   mq_resp, eng, disp, crashed, issued, dupKey, owed, wire_ok, cx>>

(***************************************************************************)
(* Worker pool (thread_pool.hpp:39-53) and the task of                     *)
(* routing_server.cpp:246-284.                                             *)
(***************************************************************************)
\* worker_loop: take the job at the head of q_
WTake(w) ==
    /\ ~crashed /\ wk[w].pc = "idle"
    /\ q_ # <<>>
    /\ wk' = [wk EXCEPT ![w] = [IdleWorker EXCEPT !.pc = "send", !.fd = Head(q_).fd,
                                   !.corr = Head(q_).corr, !.pend = Head(q_).pend,
                                   !.req = Head(q_).req, !.src = Head(q_).src]]
    /\ q_' = Tail(q_)
    /\ UNCHANGED <<el, conns, nextInst, g, budget, nslot, pending, slot, conns_mu,
                   mq_req, mq_resp, eng, disp, crashed, issued, dupKey, owed, wire_ok, cx>>

\* a send with no test of the message's length
MqSendNoCap(q, msg) == IF Len(q) >= maxmsg THEN "again" ELSE "sent"

\* PosixMq::send on the nonblocking request queue: "throw" for a message
\* longer than msgsize, "again" for EAGAIN (queue full), else "sent"
MqSend(q, msg) ==
    IF Len(msg) > msgsize THEN "throw"
    ELSE IF Len(q) >= maxmsg THEN "again"
    ELSE "sent"

\* the send loop ends after one attempt
RetryOnce(k, sent) == FALSE
\* a send loop with no bound on its attempts
RetryForever(k, sent) == ~sent
\* for (...; k < 1000 && !sent; ++k): the loop goes on
Retry(k, sent) == k < SendAttempts /\ ~sent

\* One turn of the send loop (pack on the first); k and req are not used
\* after the loop and are cleared on leaving it.  An exception leaves the
\* task through its catch clause: it is logged and nothing is enqueued.
\* After the last failed attempt the task completes its slot with mq_full
\* (if (!sent) ...): nothing else can reach the slot of an unsent request.
WSend(w) ==
    /\ ~crashed /\ wk[w].pc = "send"
    /\ LET t   == wk[w]
           msg == pack(RouteReq, t.corr, t.req)
           res == MqSend(mq_req, msg)
       IN
       CASE res = "throw" ->
              /\ wk' = [wk EXCEPT ![w] = [IdleWorker EXCEPT !.err = TRUE]]
              /\ slot' = Release(slot, pending, q_, wk', disp)
              /\ UNCHANGED mq_req
         [] res = "sent" ->
              /\ mq_req' = Append(mq_req, msg)
              /\ wk' = [wk EXCEPT ![w].pc = "wait", ![w].sent = TRUE, ![w].k = 0,
                                   ![w].req = <<>>]
              /\ UNCHANGED slot
         [] res = "again" /\ Retry(t.k + 1, FALSE) ->
              /\ wk' = [wk EXCEPT ![w].k = t.k + 1]
              /\ UNCHANGED <<mq_req, slot>>
         [] res = "again" /\ ~Retry(t.k + 1, FALSE) ->
              /\ wk' = [wk EXCEPT ![w].pc = "wait", ![w].k = 0, ![w].req = <<>>]
              /\ slot' = [slot EXCEPT ![t.pend] = [done |-> TRUE, resp |-> MQ_FULL_RESP]]
              /\ UNCHANGED mq_req
    /\ UNCHANGED <<el, conns, nextInst, g, budget, nslot, pending, q_, conns_mu, mq_resp,
                   eng, disp, crashed, issued, dupKey, owed, wire_ok, cx>>

\* wait_for returns true, done was found set; then
\* auto resp_line = pend->resp + "\n".  Whoever set done wrote resp for
\* the last time (the dispatcher fills a slot once, and only the slot of a
\* request that was sent), so the read sees what wait_for left.
WWaitDone(w) ==
    /\ ~crashed /\ wk[w].pc = "wait"
    /\ slot[wk[w].pend].done
    /\ wk' = [wk EXCEPT ![w].pc = "enq", ![w].resp_line = slot[wk[w].pend].resp \o <<NL>>]
    /\ UNCHANGED <<el, conns, nextInst, g, budget, nslot, pending, slot, q_, conns_mu,
                   mq_req, mq_resp, eng, disp, crashed, issued, dupKey, owed, wire_ok, cx>>

\* wait_for returns false (500 ms passed with done unset): complete the
\* slot locally with the timeout response
WTimeout(w) ==
    /\ ~crashed /\ wk[w].pc = "wait"
    /\ ~slot[wk[w].pend].done
    /\ slot' = [slot EXCEPT ![wk[w].pend] = [done |-> TRUE, resp |-> TIMEOUT_RESP]]
    /\ wk' = [wk EXCEPT ![w].pc = "read", ![w].to = TRUE]
    /\ UNCHANGED <<el, conns, nextInst, g, budget, nslot, pending, q_, conns_mu, mq_req,
                   mq_resp, eng, disp, crashed, issued, dupKey, owed, wire_ok, cx>>

\* after a timeout: auto resp_line = pend->resp + "\n", read without the
\* slot's mutex while the dispatcher can still reach the slot
WRead(w) ==
    /\ ~crashed /\ wk[w].pc = "read"
    /\ wk' = [wk EXCEPT ![w].pc = "enq", ![w].resp_line = slot[wk[w].pend].resp \o <<NL>>]
    /\ UNCHANGED <<el, conns, nextInst, g, budget, nslot, pending, slot, q_, conns_mu,
                   mq_req, mq_resp, eng, disp, crashed, issued, dupKey, owed, wire_ok, cx>>

\* lock conns_mu; conns.find(fd); outq.emplace_back, or nothing and return
WEnq(w) ==
    /\ ~crashed /\ wk[w].pc = "enq"
    /\ conns_mu = 0
    /\ LET t == wk[w] IN
       IF conns[t.fd].open
       THEN /\ conns' = [conns EXCEPT ![t.fd].outq = Append(@, t.resp_line)]
            /\ owed' = [owed EXCEPT ![conns[t.fd].inst] = @ \o t.resp_line]
            /\ conns_mu' = w
            /\ wk' = [wk EXCEPT ![w].pc = "wake", ![w].on = conns[t.fd].inst]
       ELSE /\ wk' = [wk EXCEPT ![w] = IdleWorker]
            /\ UNCHANGED <<conns, owed, conns_mu>>
    /\ slot' = Release(slot, pending, q_, wk', disp)
    /\ UNCHANGED <<el, nextInst, g, budget, nslot, pending, q_, mq_req, mq_resp, eng,
                   disp, crashed, issued, dupKey, wire_ok, cx>>

\* enable_write(fd, true); unlock conns_mu; the task returns
WWake(w) ==
    /\ ~crashed /\ wk[w].pc = "wake"
    /\ conns' = enable_write(conns, wk[w].fd, TRUE)
    /\ conns_mu' = 0
    /\ wk' = [wk EXCEPT ![w] = IdleWorker]
    /\ slot' = Release(slot, pending, q_, wk', disp)
    /\ UNCHANGED <<el, nextInst, g, budget, nslot, pending, q_, mq_req, mq_resp, eng,
                   disp, crashed, issued, dupKey, owed, wire_ok, cx>>

(***************************************************************************)
(* Response dispatcher (routing_server.cpp:111-144).                       *)
(***************************************************************************)
\* recv, unpack, type test, and under pend_mu: find and erase
DispRecv ==
    /\ ~crashed /\ disp.p = 0
    /\ mq_resp # <<>>
    /\ mq_resp' = Tail(mq_resp)
    /\ LET u == unpack(Head(mq_resp), MsgHdr, <<>>) IN
       IF u.ok /\ u.h.type = RouteResp /\ u.h.corr_id \in CorrIds /\ pending[u.h.corr_id] # 0
       THEN /\ disp' = [disp EXCEPT !.p = pending[u.h.corr_id], !.payload = u.payload]
            /\ pending' = [pending EXCEPT ![u.h.corr_id] = 0]
       ELSE /\ disp' = [disp EXCEPT !.dropped = TRUE]
            /\ UNCHANGED pending
    /\ UNCHANGED <<el, conns, nextInst, g, budget, nslot, slot, q_, wk, conns_mu, mq_req,
                   eng, crashed, issued, dupKey, owed, wire_ok, cx>>

\* if (p): under p->mu, resp = payload, done = true, notify
DispFill ==
    /\ ~crashed /\ disp.p # 0
    /\ disp' = [NoDisp EXCEPT !.dropped = disp.dropped]
    /\ slot' = Release([slot EXCEPT ![disp.p] = [done |-> TRUE, resp |-> disp.payload]],
                       pending, q_, wk, disp')
    /\ UNCHANGED <<el, conns, nextInst, g, budget, nslot, pending, q_, wk, conns_mu,
                   mq_req, mq_resp, eng, crashed, issued, dupKey, owed, wire_ok, cx>>

(***************************************************************************)
(* FLX engine (flx_engine.cpp:45-101), a process of its own.               *)
(***************************************************************************)
RECURSIVE Decimal(_)
\* operator<< of an unsigned integer: its decimal digits
Decimal(n) == IF n < 10 THEN <<48 + n>> ELSE Decimal(n \div 10) \o <<48 + (n % 10)>>

\* The response object, abbreviated to the value of its corr_id field.
EngineResp(h, payload) == Decimal(h.corr_id)

\* One turn of the engine's loop: blocking recv, unpack, type test, build
\* and pack the response, send it.  The engine's descriptors block, so a
\* send on a full response queue waits for room, holding the response.
EngRecv ==
    /\ eng = <<>>
    /\ mq_req # <<>>
    /\ mq_req' = Tail(mq_req)
    /\ LET u == unpack(Head(mq_req), MsgHdr, <<>>) IN
       IF u.ok /\ u.h.type = RouteReq
       THEN LET out == pack(RouteResp, u.h.corr_id, EngineResp(u.h, u.payload)) IN
            \* a response longer than msgsize makes send throw: logged, dropped
            IF Len(out) > msgsize THEN UNCHANGED <<eng, mq_resp>>
            ELSE IF Len(mq_resp) < maxmsg
            THEN mq_resp' = Append(mq_resp, out) /\ UNCHANGED eng
            ELSE eng' = out /\ UNCHANGED mq_resp
       ELSE UNCHANGED <<eng, mq_resp>>
    /\ UNCHANGED <<el, conns, nextInst, g, budget, nslot, pending, slot, q_, wk,
                   conns_mu, disp, crashed, issued, dupKey, owed, wire_ok, cx>>

\* the waiting send goes through
EngSend ==
    /\ eng # <<>>
    /\ Len(mq_resp) < maxmsg
    /\ mq_resp' = Append(mq_resp, eng)
    /\ eng' = <<>>
    /\ UNCHANGED <<el, conns, nextInst, g, budget, nslot, pending, slot, q_, wk,
                   conns_mu, mq_req, disp, crashed, issued, dupKey, owed, wire_ok, cx>>

(***************************************************************************)
(* The server with its engine.                                             *)
(***************************************************************************)
Next ==
    \/ ELAccept
    \/ \E fd \in FDs : ELHup(fd)
    \/ \E fd \in FDs, out \in BOOLEAN : ELReadClose(fd, out)
    \/ ELWriteStale
    \/ \E fd \in FDs, chunk \in Chunks, out \in BOOLEAN : ELRead(fd, chunk, out)
    \/ \E fd \in FDs : ELWritable(fd)
    \/ \E w \in -2..3 : ELWrite(w)
    \/ ELWClrTest
    \/ ELWClr
    \/ \E w \in Workers : WTake(w)
    \/ \E w \in Workers : WSend(w)
    \/ \E w \in Workers : WWaitDone(w)
    \/ \E w \in Workers : WTimeout(w)
    \/ \E w \in Workers : WRead(w)
    \/ \E w \in Workers : WEnq(w)
    \/ \E w \in Workers : WWake(w)
    \/ DispRecv
    \/ DispFill
    \/ EngRecv
    \/ EngSend

Spec == Init /\ [][Next]_vars

(***************************************************************************)
(* The server under one client that pipelines short lines on a single      *)
(* connection and neither reads its responses nor closes: the socket is    *)
(* never writable, so only accept and read events arrive.                  *)
(***************************************************************************)
BurstInit == SrvInit(MaxBurst) /\ cx = CxIdle

\* one client connects and sends a burst of short lines
BurstAccept == nextInst = 1 /\ ELAccept

BurstNext ==
    \/ BurstAccept
    \/ \E fd \in FDs : ELRead(fd, <<97, NL>>, FALSE)
    \/ \E w \in Workers : WTake(w)
    \/ \E w \in Workers : WSend(w)
    \/ \E w \in Workers : WWaitDone(w)
    \/ \E w \in Workers : WTimeout(w)
    \/ \E w \in Workers : WRead(w)
    \/ \E w \in Workers : WEnq(w)
    \/ \E w \in Workers : WWake(w)
    \/ DispRecv
    \/ DispFill
    \/ EngRecv
    \/ EngSend

BurstSpec == BurstInit /\ [][BurstNext]_vars

(***************************************************************************)
(* The server under one client that stays connected, sends lines (short   *)
(* ones and ones too long for the bus) and reads its responses at its own  *)
(* pace: the socket takes a whole frame, a part of one, or nothing.        *)
(***************************************************************************)
WireInit == SrvInit(MaxLines) /\ cx = CxIdle

WireNext ==
    \/ BurstAccept
    \/ \E fd \in FDs, chunk \in {<<97, NL>>, LongLine}, out \in BOOLEAN :
          ELRead(fd, chunk, out)
    \/ \E fd \in FDs : ELWritable(fd)
    \/ \E w \in -1..3 : w # 0 /\ ELWrite(w)
    \/ ELWClrTest
    \/ ELWClr
    \/ \E w \in Workers : WTake(w)
    \/ \E w \in Workers : WSend(w)
    \/ \E w \in Workers : WWaitDone(w)
    \/ \E w \in Workers : WTimeout(w)
    \/ \E w \in Workers : WRead(w)
    \/ \E w \in Workers : WEnq(w)
    \/ \E w \in Workers : WWake(w)
    \/ DispRecv
    \/ DispFill
    \/ EngRecv
    \/ EngSend

WireSpec == WireInit /\ [][WireNext]_vars


(***************************************************************************)
(* The codec on its own: pack a message, possibly damage the buffer, and   *)
(* unpack it into output objects that hold earlier values.                 *)
(***************************************************************************)
MaxPayload == 3
PayloadBytes == {0, NL, 97, 255}
CorrSamples == {0, 1, 255, 256, 65536, 2147483647}

RECURSIVE SeqsUpTo(_, _)
SeqsUpTo(S, n) ==
    IF n = 0 THEN {<<>>}
    ELSE LET shorter == SeqsUpTo(S, n - 1) IN
         shorter \cup {Append(q, x) : q \in {t \in shorter : Len(t) = n - 1}, x \in S}

\* the caller's MsgHdr h{} and string payload, fresh or left from an
\* earlier message
OutHdrs == {MsgHdr, [MsgHdr EXCEPT !.type = RouteResp, !.corr_id = 7, !.payload_len = 1]}
OutPayloads == {<<>>, <<120>>}

Damages == {"none", "short", "cut", "extra", "magic", "version", "len"}

Damage(buf, kind) ==
    CASE kind = "none"    -> buf
      [] kind = "short"   -> SubSeq(buf, 1, HdrSize - 1)
      [] kind = "cut"     -> SubSeq(buf, 1, Len(buf) - 1)
      [] kind = "extra"   -> Append(buf, 0)
      [] kind = "magic"   -> [buf EXCEPT ![1] = (@ + 1) % 256]
      [] kind = "version" -> [buf EXCEPT ![5] = 2]
      [] kind = "len"     -> [buf EXCEPT ![17] = (@ + 1) % 256]

CodecInit == SrvInit(0) /\ cx = [pc |-> "start"]

CxPack(t, c, p) ==
    /\ cx.pc = "start"
    /\ cx' = [pc |-> "packed", t |-> t, c |-> c, p |-> p, kind |-> "none",
              buf |-> pack(t, c, p)]
    /\ UNCHANGED <<el, conns, nextInst, g, budget, nslot, pending, slot, q_, wk,
                   conns_mu, mq_req, mq_resp, eng, disp, crashed, issued, dupKey, owed,
                   wire_ok>>

CxDamage(kind) ==
    /\ cx.pc = "packed" /\ cx.kind = "none" /\ kind # "none"
    /\ cx' = [cx EXCEPT !.kind = kind, !.buf = Damage(cx.buf, kind)]
    /\ UNCHANGED <<el, conns, nextInst, g, budget, nslot, pending, slot, q_, wk,
                   conns_mu, mq_req, mq_resp, eng, disp, crashed, issued, dupKey, owed,
                   wire_ok>>

CxUnpack(h0, p0) ==
    /\ cx.pc = "packed"
    /\ LET u == unpack(cx.buf, h0, p0) IN
       cx' = [pc |-> "unpacked", t |-> cx.t, c |-> cx.c, p |-> cx.p, kind |-> cx.kind,
              buf |-> cx.buf, h0 |-> h0, p0 |-> p0, ok |-> u.ok, h |-> u.h,
              payload |-> u.payload]
    /\ UNCHANGED <<el, conns, nextInst, g, budget, nslot, pending, slot, q_, wk,
                   conns_mu, mq_req, mq_resp, eng, disp, crashed, issued, dupKey, owed,
                   wire_ok>>

CodecNext ==
    \/ \E t \in {RouteReq, RouteResp}, c \in CorrSamples,
          p \in SeqsUpTo(PayloadBytes, MaxPayload) : CxPack(t, c, p)
    \/ \E kind \in Damages : CxDamage(kind)
    \/ \E h0 \in OutHdrs, p0 \in OutPayloads : CxUnpack(h0, p0)

CodecSpec == CodecInit /\ [][CodecNext]_vars

(***************************************************************************)
(* The dispatcher under a hostile response bus.  /tr_mq_resp is a named   *)
(* queue: any process may put a frame on it.  Here the engine is stopped  *)
(* (the request queue fills up and stays full) and another process puts   *)
(* frames on the response queue: well-formed responses for ids that are   *)
(* pending, already answered or never issued, a frame of the request      *)
(* type, and damaged frames that carry a pending id; one frame at a time.  *)
(***************************************************************************)
ForeignIds == {1, 2, 256}

ForeignFrames ==
    {pack(RouteResp, c, <<120>>) : c \in ForeignIds}
       \cup {pack(RouteReq, 1, <<120>>)}
       \cup {Damage(pack(RouteResp, 1, <<120>>), kind) : kind \in {"magic", "cut"}}

\* mq_send by another process on the response queue
BusInject(frame) ==
    /\ Len(mq_resp) < maxmsg
    /\ Len(frame) <= msgsize
    /\ mq_resp' = Append(mq_resp, frame)
    /\ UNCHANGED <<el, conns, nextInst, g, budget, nslot, pending, slot, q_, wk,
                   conns_mu, mq_req, eng, disp, crashed, issued, dupKey, owed, wire_ok,
                   cx>>

DispInit == SrvInit(MaxLines) /\ cx = CxIdle

DispNext ==
    \/ BurstAccept
    \/ \E fd \in FDs : ELRead(fd, <<97, NL>>, FALSE)
    \/ \E w \in Workers : WTake(w)
    \/ \E w \in Workers : WSend(w)
    \/ \E w \in Workers : WWaitDone(w)
    \/ \E w \in Workers : WTimeout(w)
    \/ \E w \in Workers : WRead(w)
    \/ \E w \in Workers : WEnq(w)
    \/ \E w \in Workers : WWake(w)
    \/ DispRecv
    \/ DispFill
    \/ \E frame \in ForeignFrames : mq_resp = <<>> /\ BusInject(frame)

DispSpec == DispInit /\ [][DispNext]_vars

(***************************************************************************)
(* The server with its threads scheduled.  Every worker thread that can    *)
(* take a step eventually takes it: the pool's threads run, sleep_for and  *)
(* wait_for return, and conns_mu is handed to a waiting worker.  Nothing   *)
(* is assumed of the engine, the dispatcher, the clients or the event      *)
(* loop: the engine may be slow or stopped, the bus full, a response late  *)
(* or missing, the connection gone.                                        *)
(***************************************************************************)
LiveInit == SrvInit(MaxLines) /\ cx = CxIdle

LiveNext ==
    \/ BurstAccept
    \/ \E fd \in FDs : ELHup(fd)
    \/ \E fd \in FDs, chunk \in {<<97, NL>>, LongLine} : ELRead(fd, chunk, FALSE)
    \/ \E w \in Workers : WTake(w)
    \/ \E w \in Workers : WSend(w)
    \/ \E w \in Workers : WWaitDone(w)
    \/ \E w \in Workers : WTimeout(w)
    \/ \E w \in Workers : WRead(w)
    \/ \E w \in Workers : WEnq(w)
    \/ \E w \in Workers : WWake(w)
    \/ DispRecv
    \/ DispFill
    \/ EngRecv
    \/ EngSend

WorkerStep(w) ==
    \/ WTake(w) \/ WSend(w) \/ WWaitDone(w) \/ WTimeout(w)
    \/ WRead(w) \/ WEnq(w) \/ WWake(w)

LiveSpec ==
    /\ LiveInit
    /\ [][LiveNext]_vars
    /\ \A w \in Workers : WF_vars(WorkerStep(w))

(***************************************************************************)
(* The server with the engine halted and the workers blocked: the engine   *)
(* takes nothing off the request queue, the dispatcher receives nothing,   *)
(* and a worker gets as far as its wait on the slot (after a send, or      *)
(* after its last failed attempt) and stays there.  One client connects,   *)
(* sends a burst of lines, reads or does not read, and may hang up.  The   *)
(* event loop thread runs: an event it has begun to handle it handles to   *)
(* the end; and epoll_wait reports a readable connection each time the     *)
(* loop comes back to it, so a line that has arrived is read even while    *)
(* write events keep coming.                                               *)
(***************************************************************************)
HaltInit == SrvInit(MaxBurst) /\ cx = CxIdle

\* the rest of the handling of one event
ELFinish ==
    \/ \E w \in -2..2 : w # 0 /\ ELWrite(w)
    \/ ELWClrTest
    \/ ELWClr

HaltNext ==
    \/ BurstAccept
    \/ \E fd \in FDs : ELHup(fd)
    \/ \E fd \in FDs, out \in BOOLEAN : ELRead(fd, <<97, NL>>, out)
    \/ \E fd \in FDs : ELWritable(fd)
    \/ ELFinish
    \/ \E w \in Workers : WTake(w)
    \/ \E w \in Workers : WSend(w)

HaltSpec ==
    /\ HaltInit
    /\ [][HaltNext]_vars
    /\ WF_vars(ELFinish)
    /\ SF_vars(\E fd \in FDs, out \in BOOLEAN : ELRead(fd, <<97, NL>>, out))

(***************************************************************************)
(* One turn of the engine's loop with its real response text               *)
(* (flx_engine.cpp:13-26, 45-101; alr_store.hpp).  Text is written as the  *)
(* bytes of its characters.                                                *)
(***************************************************************************)
\* std::string::find(pat, from): the first position at or after from where
\* pat occurs, 0 for npos (positions count from 1)
Find(j, pat, from) ==
    LET hits == {i \in from..(Len(j) - Len(pat) + 1) : SubSeq(j, i, i + Len(pat) - 1) = pat}
    IN IF from < 1 \/ hits = {} THEN 0
       ELSE CHOOSE i \in hits : \A x \in hits : i <= x

\* json_get_string: "key" ... : ... "value"
json_get_string(j, key) ==
    LET pat   == <<34>> \o key \o <<34>>
        k     == Find(j, pat, 1)
        colon == IF k = 0 THEN 0 ELSE Find(j, <<58>>, k + Len(pat))
        q1    == IF colon = 0 THEN 0 ELSE Find(j, <<34>>, colon)
        q2    == IF q1 = 0 THEN 0 ELSE Find(j, <<34>>, q1 + 1)
    IN IF q2 = 0 THEN <<>> ELSE SubSeq(j, q1 + 1, q2 - 1)

\* the keys the engine reads: msisdn, op
K_msisdn == <<109, 115, 105, 115, 100, 110>>
K_op == <<111, 112>>

\* AlrStore::db_, the seeded registry: +14085551234, +12125550123,
\* +442079460123
db_ ==
    {[msisdn |-> <<43, 49, 52, 48, 56, 53, 53, 53, 49, 50, 51, 52>>, imsi |-> <<51, 49, 48, 49, 53, 48, 49, 50, 51, 52, 53, 54, 55, 56, 57>>,
      serving_msc |-> <<77, 83, 67, 95, 68, 65, 76, 76, 65, 83, 95, 48, 49>>, serving_vlr |-> <<86, 76, 82, 95, 68, 65, 76, 95, 48, 49>>,
      region |-> <<85, 83, 45, 83, 79, 85, 84, 72>>],
     [msisdn |-> <<43, 49, 50, 49, 50, 53, 53, 53, 48, 49, 50, 51>>, imsi |-> <<51, 49, 48, 49, 53, 48, 57, 56, 55, 54, 53, 52, 51, 50, 49>>,
      serving_msc |-> <<77, 83, 67, 95, 78, 89, 67, 95, 48, 49>>, serving_vlr |-> <<86, 76, 82, 95, 78, 89, 67, 95, 48, 49>>,
      region |-> <<85, 83, 45, 69, 65, 83, 84>>],
     [msisdn |-> <<43, 52, 52, 50, 48, 55, 57, 52, 54, 48, 49, 50, 51>>, imsi |-> <<50, 51, 52, 49, 53, 48, 49, 49, 49, 50, 50, 50, 51, 51, 51>>,
      serving_msc |-> <<77, 83, 67, 95, 76, 79, 78, 95, 48, 49>>, serving_vlr |-> <<86, 76, 82, 95, 76, 79, 78, 95, 48, 49>>,
      region |-> <<85, 75>>]}

\* lookup_msisdn: the set holding the record, or the empty set for nullopt
lookup_msisdn(msisdn) == {rec \in db_ : rec.msisdn = msisdn}

\* route_policy: ROUTE_GROUP_EAST, ROUTE_GROUP_SOUTH, ROUTE_GROUP_INTL
route_policy(rec) ==
    IF rec.region = <<85, 83, 45, 69, 65, 83, 84>> THEN <<82, 79, 85, 84, 69, 95, 71, 82, 79, 85, 80, 95, 69, 65, 83, 84>>
    ELSE IF rec.region = <<85, 83, 45, 83, 79, 85, 84, 72>> THEN <<82, 79, 85, 84, 69, 95, 71, 82, 79, 85, 80, 95, 83, 79, 85, 84, 72>>
    ELSE <<82, 79, 85, 84, 69, 95, 71, 82, 79, 85, 80, 95, 73, 78, 84, 76>>

\* "status":"NOT_FOUND","reason":"subscriber_not_in_alr"
NotFoundPart == <<34, 115, 116, 97, 116, 117, 115, 34, 58, 34, 78, 79, 84, 95, 70, 79, 85, 78, 68, 34, 44>> \o <<34, 114, 101, 97, 115, 111, 110, 34, 58, 34, 115, 117, 98, 115, 99, 114, 105, 98, 101, 114, 95, 110, 111, 116, 95, 105, 110, 95, 97, 108, 114, 34>>

\* "status":"OK","imsi":"..","serving_msc":"..","serving_vlr":"..",
\* "route_group":".."
OkPart(rec) ==
    <<34, 115, 116, 97, 116, 117, 115, 34, 58, 34, 79, 75, 34, 44>>
    \o <<34, 105, 109, 115, 105, 34, 58, 34>> \o rec.imsi \o <<34, 44>>
    \o <<34, 115, 101, 114, 118, 105, 110, 103, 95, 109, 115, 99, 34, 58, 34>> \o rec.serving_msc \o <<34, 44>>
    \o <<34, 115, 101, 114, 118, 105, 110, 103, 95, 118, 108, 114, 34, 58, 34>> \o rec.serving_vlr \o <<34, 44>>
    \o <<34, 114, 111, 117, 116, 101, 95, 103, 114, 111, 117, 112, 34, 58, 34>> \o route_policy(rec) \o <<34>>

\* a response text whose msisdn field is left empty
resp_str_no_echo(h, payload, lat) ==
    <<123>> \o <<34, 99, 111, 114, 114, 95, 105, 100, 34, 58>> \o Decimal(h.corr_id) \o <<44>>
    \o <<34, 111, 112, 34, 58, 34>> \o <<114, 111, 117, 116, 101>> \o <<34, 44>> \o <<34, 109, 115, 105, 115, 100, 110, 34, 58, 34>> \o <<34, 44>>
    \o NotFoundPart \o <<44, 34, 102, 108, 120, 95, 108, 97, 116, 101, 110, 99, 121, 95, 109, 115, 34, 58>> \o Decimal(lat) \o <<125>>

\* resp.str(): the text streamed into the ostringstream; lat is t1 - t0
resp_str(h, payload, lat) ==
    LET msisdn == json_get_string(payload, K_msisdn)
        op     == json_get_string(payload, K_op)
        rec    == lookup_msisdn(msisdn)
    IN <<123>>
       \o <<34, 99, 111, 114, 114, 95, 105, 100, 34, 58>> \o Decimal(h.corr_id) \o <<44>>
       \o <<34, 111, 112, 34, 58, 34>> \o (IF op = <<>> THEN <<114, 111, 117, 116, 101>> ELSE op) \o <<34, 44>>
       \o <<34, 109, 115, 105, 115, 100, 110, 34, 58, 34>> \o msisdn \o <<34, 44>>
       \o (IF rec = {} THEN NotFoundPart ELSE OkPart(CHOOSE r \in rec : TRUE))
       \o <<44, 34, 102, 108, 120, 95, 108, 97, 116, 101, 110, 99, 121, 95, 109, 115, 34, 58>> \o Decimal(lat)
       \o <<125>>

\* One turn on a received frame: the frames handed to mq_resp.send.
EngineTurn(frame, lat) ==
    IF Len(frame) = 0 THEN <<>>
    ELSE LET u == unpack(frame, MsgHdr, <<>>) IN
         IF ~u.ok THEN <<>>
         ELSE IF u.h.type # RouteReq THEN <<>>
         ELSE <<pack(RouteResp, u.h.corr_id, resp_str(u.h, u.payload, lat))>>

\* request texts: subscribers in and out of the registry, with and without
\* op, keys in either order, a key name as a value, an escaped quote in
\* the value, no msisdn at all, and text that is no object
ReqPayloads ==
    {<<123, 34, 109, 115, 105, 115, 100, 110, 34, 58, 34, 43, 49, 52, 48, 56, 53, 53, 53, 49, 50, 51, 52, 34, 125>>,
     <<123, 34, 109, 115, 105, 115, 100, 110, 34, 58, 34, 43, 49, 50, 49, 50, 53, 53, 53, 48, 49, 50, 51, 34, 44, 34, 111, 112, 34, 58, 34, 114, 111, 117, 116, 101, 34, 125>>,
     <<123, 34, 111, 112, 34, 58, 34, 115, 114, 105, 34, 44, 34, 109, 115, 105, 115, 100, 110, 34, 58, 34, 43, 52, 52, 50, 48, 55, 57, 52, 54, 48, 49, 50, 51, 34, 125>>,
     <<123, 34, 109, 115, 105, 115, 100, 110, 34, 58, 34, 43, 49, 57, 57, 57, 34, 44, 34, 111, 112, 34, 58, 34, 120, 34, 125>>,
     <<123, 34, 111, 112, 34, 58, 34, 109, 115, 105, 115, 100, 110, 34, 44, 34, 109, 115, 105, 115, 100, 110, 34, 58, 34, 55, 34, 125>>,
     <<123, 34, 111, 112, 34, 58, 34, 115, 116, 97, 116, 117, 115, 34, 44, 34, 109, 115, 105, 115, 100, 110, 34, 58, 34, 43, 49, 50, 49, 50, 53, 53, 53, 48, 49, 50, 51, 34, 125>>,
     <<123, 34, 109, 115, 105, 115, 100, 110, 34, 58, 34, 97, 92, 34, 98, 34, 125>>,
     <<123, 34, 109, 115, 105, 115, 100, 110, 34, 32, 34, 111, 112, 34, 58, 34, 53, 34, 125>>,
     <<123, 34, 111, 112, 34, 58, 34, 114, 111, 117, 116, 101, 34, 125>>,
     <<123, 34, 109, 115, 105, 115, 100, 110, 34, 58, 34>>,
     <<97>>,
     <<>>}

FlxDamages == {"none", "magic", "cut", "len"}

FlxFrames ==
    {Damage(pack(t, c, p), kind) :
        t \in {RouteReq, RouteResp}, c \in CorrSamples, p \in ReqPayloads,
        kind \in FlxDamages}

EngineInit == SrvInit(0) /\ cx = [pc |-> "flx"]

\* recv returns frame; the turn's work takes lat milliseconds
FlxTurn(frame, lat) ==
    /\ cx.pc = "flx"
    /\ cx' = [pc |-> "flxdone", in |-> frame, lat |-> lat, att |-> EngineTurn(frame, lat)]
    /\ UNCHANGED <<el, conns, nextInst, g, budget, nslot, pending, slot, q_, wk,
                   conns_mu, mq_req, mq_resp, eng, disp, crashed, issued, dupKey, owed,
                   wire_ok>>

\* back to the top of the loop
FlxLoop ==
    /\ cx.pc = "flxdone"
    /\ cx' = [pc |-> "flx"]
    /\ UNCHANGED <<el, conns, nextInst, g, budget, nslot, pending, slot, q_, wk,
                   conns_mu, mq_req, mq_resp, eng, disp, crashed, issued, dupKey, owed,
                   wire_ok>>

EngineNext ==
    \/ \E frame \in FlxFrames, lat \in {0, 12} : FlxTurn(frame, lat)
    \/ FlxLoop

EngineSpec == EngineInit /\ [][EngineNext]_vars

(***************************************************************************)
(* ThreadPool (thread_pool.hpp), taken through its whole life: the        *)
(* constructor's threads, submit calls with tasks that return or throw,   *)
(* and the destructor.  q_ is the pool's queue; the rest of the pool is   *)
(* held in cx.  A thread in cv_.wait sleeps until it is notified or wakes *)
(* spuriously, and then tests the predicate under mu_.  A submit call may *)
(* come from another thread while the destructor runs.                     *)
(***************************************************************************)
MaxTasks == 3

\* ThreadPool(n): if (n == 0) n = 1
PoolSize(n) == IF n = 0 THEN 1 ELSE n

Threads == 1..PoolSize(nworkers)
TaskIds == 1..MaxTasks

NoJob == [id |-> 0, throws |-> FALSE]

\* th: each thread's place in worker_loop and the job it holds;
\* calls, acc, rej, ran, caught, atstop: history of the submit calls, of
\* the threads that ran each task, of the exceptions caught, and of the
\* length of the queue when stop_ was set
PoolInit ==
    /\ SrvInit(0)
    /\ cx = [pc |-> "pool", stop_ |-> FALSE,
             th |-> [t \in Threads |-> [pc |-> "lock", job |-> NoJob]],
             sub |-> "idle", dt |-> "none", ji |-> 0,
             calls |-> 0, acc |-> {}, rej |-> {},
             ran |-> [i \in TaskIds |-> <<>>], caught |-> {}, atstop |-> 0]

\* submit, up to the end of its locked block: throw if stop_, else push
submit(throws) ==
    /\ cx.sub = "idle" /\ cx.dt # "done"
    /\ cx.calls < MaxTasks
    /\ LET id == cx.calls + 1 IN
       IF cx.stop_
       THEN /\ cx' = [cx EXCEPT !.calls = id, !.rej = @ \cup {id}]
            /\ UNCHANGED q_
       ELSE /\ q_' = Append(q_, [id |-> id, throws |-> throws])
            /\ cx' = [cx EXCEPT !.calls = id, !.acc = @ \cup {id}, !.sub = "notify"]
    /\ UNCHANGED <<el, conns, nextInst, g, budget, nslot, pending, slot, wk, conns_mu,
                   mq_req, mq_resp, eng, disp, crashed, issued, dupKey, owed, wire_ok>>

\* cv_.notify_one() at the end of submit: wakes one sleeping thread, t,
\* or none (t = 0) when none sleeps
SubmitNotify(t) ==
    /\ cx.sub = "notify"
    /\ IF t = 0
       THEN /\ \A u \in Threads : cx.th[u].pc # "sleep"
            /\ cx' = [cx EXCEPT !.sub = "idle"]
       ELSE /\ t \in Threads /\ cx.th[t].pc = "sleep"
            /\ cx' = [cx EXCEPT !.sub = "idle", !.th[t].pc = "lock"]
    /\ UNCHANGED <<el, conns, nextInst, g, budget, nslot, pending, slot, q_, wk,
                   conns_mu, mq_req, mq_resp, eng, disp, crashed, issued, dupKey, owed,
                   wire_ok>>

\* a worker that stops although jobs are queued
ExitTestStopOnly(stop, q) == stop
\* if (stop_ && q_.empty()) return
ExitTest(stop, q) == stop /\ q = <<>>

\* worker_loop under mu_: the predicate of cv_.wait, the exit test, or
\* job = q_.front(); q_.pop()
WorkerTake(t) ==
    /\ cx.th[t].pc = "lock"
    /\ IF ~(cx.stop_ \/ q_ # <<>>)
       THEN /\ cx' = [cx EXCEPT !.th[t].pc = "sleep"]
            /\ UNCHANGED q_
       ELSE IF ExitTest(cx.stop_, q_)
       THEN /\ cx' = [cx EXCEPT !.th[t].pc = "exited"]
            /\ UNCHANGED q_
       ELSE /\ cx' = [cx EXCEPT !.th[t] = [pc |-> "run", job |-> Head(q_)]]
            /\ q_' = Tail(q_)
    /\ UNCHANGED <<el, conns, nextInst, g, budget, nslot, pending, slot, wk, conns_mu,
                   mq_req, mq_resp, eng, disp, crashed, issued, dupKey, owed, wire_ok>>

\* a spurious wake-up of cv_.wait
SpuriousWake(t) ==
    /\ cx.th[t].pc = "sleep"
    /\ cx' = [cx EXCEPT !.th[t].pc = "lock"]
    /\ UNCHANGED <<el, conns, nextInst, g, budget, nslot, pending, slot, q_, wk,
                   conns_mu, mq_req, mq_resp, eng, disp, crashed, issued, dupKey, owed,
                   wire_ok>>

\* try { job(); } catch (...) { log }: the loop goes on either way
RunJob(t) ==
    /\ cx.th[t].pc = "run"
    /\ LET job == cx.th[t].job IN
       cx' = [cx EXCEPT !.th[t] = [pc |-> "lock", job |-> NoJob],
                        !.ran[job.id] = Append(@, t),
                        !.caught = IF job.throws THEN @ \cup {job.id} ELSE @]
    /\ UNCHANGED <<el, conns, nextInst, g, budget, nslot, pending, slot, q_, wk,
                   conns_mu, mq_req, mq_resp, eng, disp, crashed, issued, dupKey, owed,
                   wire_ok>>

\* ~ThreadPool: stop_ = true under mu_; the caller is in no submit call
DtorStop ==
    /\ cx.dt = "none" /\ cx.sub = "idle"
    /\ cx' = [cx EXCEPT !.stop_ = TRUE, !.dt = "notify", !.atstop = Len(q_)]
    /\ UNCHANGED <<el, conns, nextInst, g, budget, nslot, pending, slot, q_, wk,
                   conns_mu, mq_req, mq_resp, eng, disp, crashed, issued, dupKey, owed,
                   wire_ok>>

\* cv_.notify_all()
DtorNotifyAll ==
    /\ cx.dt = "notify"
    /\ cx' = [cx EXCEPT !.dt = "join", !.ji = 1,
                        !.th = [t \in Threads |->
                                  IF cx.th[t].pc = "sleep"
                                  THEN [cx.th[t] EXCEPT !.pc = "lock"]
                                  ELSE cx.th[t]]]
    /\ UNCHANGED <<el, conns, nextInst, g, budget, nslot, pending, slot, q_, wk,
                   conns_mu, mq_req, mq_resp, eng, disp, crashed, issued, dupKey, owed,
                   wire_ok>>

\* for (auto& t : workers_) t.join()
DtorJoin ==
    /\ cx.dt = "join"
    /\ cx.th[cx.ji].pc = "exited"
    /\ cx' = IF cx.ji = PoolSize(nworkers)
             THEN [cx EXCEPT !.dt = "done", !.ji = 0]
             ELSE [cx EXCEPT !.ji = @ + 1]
    /\ UNCHANGED <<el, conns, nextInst, g, budget, nslot, pending, slot, q_, wk,
                   conns_mu, mq_req, mq_resp, eng, disp, crashed, issued, dupKey, owed,
                   wire_ok>>

PoolNext ==
    \/ \E throws \in BOOLEAN : submit(throws)
    \/ \E t \in Threads \cup {0} : SubmitNotify(t)
    \/ \E t \in Threads : WorkerTake(t)
    \/ \E t \in Threads : SpuriousWake(t)
    \/ \E t \in Threads : RunJob(t)
    \/ DtorStop
    \/ DtorNotifyAll
    \/ DtorJoin

\* Threads run: a thread that can go on in worker_loop, and a caller that
\* is inside submit or the destructor, eventually take their step.  No
\* call is ever forced, and no wake-up without a notify is.
PoolSpec ==
    /\ PoolInit
    /\ [][PoolNext]_vars
    /\ \A t \in Threads : WF_vars(WorkerTake(t) \/ RunJob(t))
    /\ WF_vars(\E t \in Threads \cup {0} : SubmitNotify(t))
    /\ WF_vars(DtorNotifyAll \/ DtorJoin)

(***************************************************************************)
(* Properties.                                                             *)
(***************************************************************************)
\* the connection a line was read on is still in the table
SrcOpen(i) == \E fd \in FDs : conns[fd].open /\ conns[fd].inst = i

RECURSIVE Flatten(_)
Flatten(q) == IF q = <<>> THEN <<>> ELSE Head(q) \o Flatten(Tail(q))

\* C1 (as a property of finite runs): a task whose line was read on a
\* connection that is still open ends only after it has enqueued its
\* response on that connection; otherwise the line would never be answered.
C1_EveryLineAnswered ==
    [][\A w \in Workers :
         (wk[w].pc # "idle" /\ wk'[w].pc = "idle" /\ SrcOpen(wk[w].src))
            => (wk[w].pc = "wake" /\ wk[w].on = wk[w].src)]_vars

\* C2: a response is enqueued only on the connection its request was read
\* on, also when that connection's descriptor number has been given to a
\* later connection.
C2_OwnConnectionOnly ==
    \A w \in Workers : wk[w].pc = "wake" => wk[w].on = wk[w].src

\* C3: once a slot is completed, its done flag and its response stay as
\* the first completer left them for as long as a worker holds the slot.
C3_CompletedOnce ==
    [][\A r \in SlotIds :
         (slot[r].done /\ \E w \in Workers : wk[w].pend = r /\ wk'[w].pend = r)
            => slot'[r] = slot[r]]_vars

\* C4: once a worker's wait has ended in a timeout, the pending table
\* holds no entry for that request's correlation id.
C4_NoEntryAfterTimeout ==
    \A w \in Workers : wk[w].to => pending[wk[w].corr] = 0

\* C5: the pending table never holds more than MAX_PENDING + nworkers
\* entries.
C5_SizeWithinGrace == PendingSize <= MAX_PENDING + nworkers

\* the table is one above the ceiling and every line of the burst has been
\* read (the later ones answered BUSY)
C5_Witness == PendingSize = MAX_PENDING + 1 /\ budget = 0

\* C6: the pending table never holds more than MAX_PENDING entries (the
\* line after the first MAX_PENDING is answered BUSY and not inserted).
C6_NeverAboveCeiling == PendingSize <= MAX_PENDING

\* C7: the ids handed out by next_corr_id are strictly increasing in the
\* order of assignment, and no insert finds its key already in the table.
C7_FreshIncreasingIds ==
    /\ \A i, j \in 1..Len(issued) : i < j => issued[i] < issued[j]
    /\ ~dupKey

\* three ids issued; the first entry has been removed and the third is in
\* the table
C7_Witness ==
    /\ Len(issued) >= 3
    /\ pending[issued[1]] = 0
    /\ pending[issued[3]] # 0

\* C8: unpack of pack(t, c, p) succeeds and gives back t, c, |p| and p,
\* for every message whose framed size is within msgsize.
C8_RoundTrip ==
    (cx.pc = "unpacked" /\ cx.kind = "none" /\ HdrSize + Len(cx.p) <= msgsize)
       => /\ cx.ok
          /\ cx.h.type = cx.t
          /\ cx.h.corr_id = cx.c
          /\ cx.h.payload_len = Len(cx.p)
          /\ cx.payload = cx.p

\* a RouteResp with a multi-byte id and a payload holding a newline went
\* through pack and unpack into output objects that held other values
C8_Witness ==
    /\ cx.pc = "unpacked" /\ cx.kind = "none" /\ cx.ok
    /\ cx.t = RouteResp /\ cx.c = 65536 /\ cx.p = <<97, NL>>
    /\ cx.h0 # MsgHdr /\ cx.p0 # <<>>
    /\ cx.payload = cx.p

\* the four grounds for rejection, read off the buffer
Rejectable(buf) ==
    \/ Len(buf) < HdrSize
    \/ SubSeq(buf, 1, 4) # LE(MAGIC, 4)
    \/ SubSeq(buf, 5, 6) # LE(VERSION, 2)
    \/ FromLE(SubSeq(buf, 17, 20)) + HdrSize # Len(buf)

\* C9: unpack rejects exactly the buffers that are too short, carry
\* another magic or version, or whose length field disagrees with their
\* length; and on rejection the caller's outputs are as they were.
C9_RejectsCleanly ==
    cx.pc = "unpacked"
       => /\ cx.ok <=> ~Rejectable(cx.buf)
          /\ ~cx.ok => (cx.h = cx.h0 /\ cx.payload = cx.p0)

\* C10: what a connection's socket has received is, byte for byte, the
\* start of what was enqueued on it, and what is left in its output queue
\* is exactly the rest.
C10_WireIsPrefix ==
    /\ wire_ok
    /\ \A fd \in FDs : conns[fd].open => Flatten(conns[fd].outq) = owed[conns[fd].inst]

\* a write event finds a partly written frame with another frame behind it
C10_Witness ==
    /\ el.pc = "write"
    /\ Len(conns[el.fd].outq) >= 2
    /\ Len(conns[el.fd].outq[1]) = 1

\* q occurs in s
IsSub(q, s) == Find(s, q, 1) # 0

\* C11: for a received frame that is a well-formed RouteReq with id c the
\* engine hands mq_resp.send exactly one frame: a RouteResp with header id
\* c whose text starts with "corr_id":c, whose msisdn field is the msisdn
\* read from the request, and whose status is OK with the subscriber's
\* record exactly when the registry has that msisdn, NOT_FOUND otherwise;
\* for any other frame it hands send nothing.
C11_EngineAnswersOnce ==
    cx.pc = "flxdone" =>
      LET f == cx.in
          c == FromLE(SubSeq(f, 9, 16))
          m == json_get_string(SubSeq(f, HdrSize + 1, Len(f)), K_msisdn)
      IN IF ~Rejectable(f) /\ FromLE(SubSeq(f, 7, 8)) = RouteReq
         THEN /\ Len(cx.att) = 1
              /\ LET u == unpack(cx.att[1], MsgHdr, <<>>) IN
                 /\ u.ok
                 /\ u.h.type = RouteResp
                 /\ u.h.corr_id = c
                 /\ SubSeq(u.payload, 1, 12 + Len(Decimal(c)))
                       = <<123, 34, 99, 111, 114, 114, 95, 105, 100, 34, 58>> \o Decimal(c) \o <<44>>
                 /\ json_get_string(u.payload, K_msisdn) = m
                 /\ IF \E rec \in db_ : rec.msisdn = m
                    THEN /\ IsSub(OkPart(CHOOSE rec \in db_ : rec.msisdn = m), u.payload)
                         /\ ~IsSub(<<34, 115, 116, 97, 116, 117, 115, 34, 58, 34, 78, 79, 84, 95, 70, 79, 85, 78, 68, 34>>, u.payload)
                    ELSE /\ IsSub(<<34, 115, 116, 97, 116, 117, 115, 34, 58, 34, 78, 79, 84, 95, 70, 79, 85, 78, 68, 34>>, u.payload)
                         /\ ~IsSub(<<34, 115, 116, 97, 116, 117, 115, 34, 58, 34, 79, 75, 34>>, u.payload)
         ELSE cx.att = <<>>

\* a well-formed request for a subscriber of the registry, with a
\* multi-byte id, has been answered
C11_Witness ==
    /\ cx.pc = "flxdone"
    /\ Len(cx.att) = 1
    /\ FromLE(SubSeq(cx.in, 9, 16)) = 65536
    /\ json_get_string(SubSeq(cx.in, HdrSize + 1, Len(cx.in)), K_msisdn) = <<43, 52, 52, 50, 48, 55, 57, 52, 54, 48, 49, 50, 51>>
    /\ IsSub(<<34, 114, 111, 117, 116, 101, 95, 103, 114, 111, 117, 112, 34, 58, 34, 82, 79, 85, 84, 69, 95, 71, 82, 79, 85, 80, 95, 73, 78, 84, 76, 34>>, cx.att[1])

\* C12: the response line of a request whose wait ended in a timeout is
\* exactly the TIMEOUT response followed by a newline, also when the
\* engine's response arrives after the timeout.
C12_TimeoutLine ==
    \A w \in Workers :
        (wk[w].to /\ wk[w].pc \in {"enq", "wake"})
            => wk[w].resp_line = TIMEOUT_RESP \o <<NL>>

\* no frame carrying id c is on the bus or in the engine's hands
OffBus(c) ==
    /\ \A i \in 1..Len(mq_req) : FromLE(SubSeq(mq_req[i], 9, 16)) # c
    /\ \A i \in 1..Len(mq_resp) : FromLE(SubSeq(mq_resp[i], 9, 16)) # c
    /\ eng # <<>> => FromLE(SubSeq(eng, 9, 16)) # c

\* a task that left the send loop unsent: its slot was completed on the
\* spot, it did not run into the timeout, its frame is nowhere on the bus
\* and its line is the mq_full response
C13_Unsent ==
    \A w \in Workers :
        (wk[w].pc \in {"wait", "read", "enq", "wake"} /\ ~wk[w].sent)
            => /\ ~wk[w].to
               /\ wk[w].pc # "read"
               /\ slot[wk[w].pend] = [done |-> TRUE, resp |-> MQ_FULL_RESP]
               /\ OffBus(wk[w].corr)
               /\ wk[w].pc \in {"enq", "wake"} => wk[w].resp_line = MQ_FULL_RESP \o <<NL>>

\* C13: a task leaves the send loop unsent only after SendAttempts
\* attempts that all found the request queue full, and then its frame is
\* never on the bus and its line is exactly the mq_full response, with no
\* wait for the timeout; a frame is put on the bus only by a task's
\* successful attempt, which ends that task's send loop.
C13_BusSaturation ==
    [][/\ C13_Unsent'
       /\ \A w \in Workers :
            (wk[w].pc = "send" /\ wk'[w].pc = "wait" /\ ~wk'[w].sent)
               => /\ wk[w].k + 1 = SendAttempts
                  /\ Len(mq_req) >= maxmsg
                  /\ mq_req' = mq_req
       /\ Len(mq_req') > Len(mq_req)
            => \E w \in Workers :
                 /\ wk[w].pc = "send" /\ wk'[w].pc = "wait" /\ wk'[w].sent
                 /\ OffBus(wk[w].corr)
                 /\ mq_req' = Append(mq_req, pack(RouteReq, wk[w].corr, wk[w].req))]_vars

\* an unsent task has enqueued its mq_full line on the connection its
\* line was read on
C13_Witness ==
    \E w \in Workers :
        /\ wk[w].pc = "wake" /\ ~wk[w].sent
        /\ wk[w].on = wk[w].src
        /\ wk[w].resp_line = MQ_FULL_RESP \o <<NL>>

\* C14: a task whose line, with the 24-byte header, is longer than msgsize
\* leaves its first send attempt through the error path, whether or not
\* the queue is full: nothing is put on the bus, no retry is counted and
\* the slot is not completed with mq_full; no queue ever holds a frame
\* longer than msgsize.
C14_OversizeRejected ==
    [][/\ \A w \in Workers :
            (wk[w].pc = "send" /\ HdrSize + Len(wk[w].req) > msgsize /\ wk'[w] # wk[w])
               => /\ wk'[w] = [IdleWorker EXCEPT !.err = TRUE]
                  /\ wk[w].k = 0
                  /\ mq_req' = mq_req
                  /\ ~slot'[wk[w].pend].done
       /\ \A i \in 1..Len(mq_req') : Len(mq_req'[i]) <= msgsize
       /\ \A i \in 1..Len(mq_resp') : Len(mq_resp'[i]) <= msgsize]_vars

\* a task was ended by the error while the request queue was full
C14_Witness ==
    /\ \E w \in Workers : wk[w].pc = "idle" /\ wk[w].err
    /\ Len(mq_req) >= maxmsg
    /\ \A i \in 1..Len(mq_req) : Len(mq_req[i]) <= msgsize

\* C15: when a task ends by an error, the thread is free for the next
\* task, the process goes on, and the TIMEOUT line is enqueued for the
\* client whose connection is still open.
C15_ErrorGivesTimeout ==
    [][\A w \in Workers :
         (wk[w].pc # "idle" /\ wk'[w].pc = "idle" /\ wk'[w].err)
            => /\ ~crashed'
               /\ \A fd \in FDs :
                    (conns[fd].open /\ conns[fd].inst = wk[w].src)
                       => conns'[fd].outq = Append(conns[fd].outq, TIMEOUT_RESP \o <<NL>>)]_vars

\* C16: when the event loop waits for readiness, a connection whose
\* output queue holds a response has write interest set, unless a worker
\* stands between its enqueue on that connection and its enable_write.
C16_QueuedHasInterest ==
    \A fd \in FDs :
        (/\ el.pc = "poll"
         /\ conns[fd].open
         /\ conns[fd].outq # <<>>
         /\ ~\E w \in Workers : wk[w].pc = "wake" /\ wk[w].fd = fd)
            => conns[fd].want_write

\* the part of a connection that workers and the event loop both touch
TableEntry(c) ==
    [open |-> c.open, inst |-> c.inst, outq |-> c.outq, want_write |-> c.want_write]

\* C17: while a worker is inside its lookup / enqueue / enable-write
\* section (it holds conns_mu from its find to its enable_write), no other
\* thread inserts into or erases from the connection table, or changes an
\* output queue or a write-interest flag.
C17_ExclusiveAccess ==
    [][(conns_mu # 0 /\ conns_mu' = conns_mu)
          => \A fd \in FDs : TableEntry(conns'[fd]) = TableEntry(conns[fd])]_vars

\* C18: within one readiness event the event loop enters its write step
\* (the loop over it->second.outq) only for a connection that is still in
\* the table: never for one that the read step of the same event has
\* closed and evicted.
C18_NoAccessAfterClose ==
    el.pc \in {"write", "stale"} => conns[el.fd].open

\* the frame is a well-formed response whose id has an entry in the table
Matches(buf, pend) ==
    /\ ~Rejectable(buf)
    /\ FromLE(SubSeq(buf, 7, 8)) = RouteResp
    /\ FromLE(SubSeq(buf, 9, 16)) \in CorrIds
    /\ pend[FromLE(SubSeq(buf, 9, 16))] # 0

\* C19: a step in which the dispatcher takes a frame off the response
\* queue removes from the pending table exactly the entry of that frame's
\* id, and takes that entry's slot, when the frame is a well-formed
\* RouteResp whose id has an entry; otherwise it leaves the table and the
\* slot it holds as they were; either way no slot changes.  The step in
\* which it completes the slot it took changes no other slot and leaves
\* the table alone.
C19_DispatcherEffect ==
    [][/\ (mq_resp # <<>> /\ mq_resp' = Tail(mq_resp))
            => LET buf == Head(mq_resp)
                   id  == FromLE(SubSeq(buf, 9, 16))
               IN  /\ slot' = slot
                   /\ IF Matches(buf, pending)
                      THEN /\ pending' = [pending EXCEPT ![id] = 0]
                           /\ disp'.p = pending[id]
                           /\ disp'.payload = SubSeq(buf, HdrSize + 1, Len(buf))
                      ELSE /\ pending' = pending
                           /\ disp'.p = disp.p /\ disp'.payload = disp.payload
       /\ (disp.p # 0 /\ disp'.p = 0)
            => /\ pending' = pending
               /\ \A r \in SlotIds : r # disp.p => slot'[r] = slot[r]
               /\ slot'[disp.p] \in {Pending, [done |-> TRUE, resp |-> disp.payload]}]_vars

\* the dispatcher has discarded a frame, and now holds the slot of a
\* foreign response whose entry it removed, while another entry is still
\* in the table
C19_Witness ==
    /\ disp.dropped
    /\ disp.p # 0 /\ disp.payload = <<120>>
    /\ \A c \in CorrIds : pending[c] # disp.p
    /\ \E c \in CorrIds : pending[c] # 0

\* the task of request c is queued in the pool or running on a worker
Submitted(c) ==
    \/ \E i \in 1..Len(q_) : q_[i].corr = c
    \/ \E w \in Workers : wk[w].pc # "idle" /\ wk[w].corr = c

\* the order of a task's steps
Stage(pc) ==
    CASE pc = "idle" -> 0 [] pc = "send" -> 1 [] pc = "wait" -> 2
      [] pc = "read" -> 3 [] pc = "enq" -> 4 [] pc = "wake" -> 5

\* C20: a task never makes more send attempts than the bound of its send
\* loop; it only moves forward (send loop, one wait, enqueue step) or
\* returns, so it waits on its slot at most once; and every submitted task
\* eventually has finished, leaving its worker free, whatever the engine,
\* the bus and the dispatcher do.
C20_TasksTerminate ==
    /\ [](\A w \in Workers : wk[w].k < SendAttempts)
    /\ [][\A w \in Workers :
            wk'[w].pc # wk[w].pc
               => (wk'[w].pc = "idle" \/ Stage(wk'[w].pc) > Stage(wk[w].pc))]_vars
    /\ \A c \in CorrIds : Submitted(c) ~> ~Submitted(c)

\* all lines were submitted and every task has finished, although the
\* engine never took the request that fills the bus and no response ever
\* came: the tasks ended by timeout, by using up their send attempts or
\* by a send error
C20_Witness ==
    /\ budget = 0 /\ Len(issued) = MaxLines
    /\ q_ = <<>> /\ \A w \in Workers : wk[w].pc = "idle"
    /\ Len(mq_req) = maxmsg /\ eng = <<>> /\ mq_resp = <<>>
    /\ \A c \in CorrIds : pending[c] # 0 <=> c \in 1..MaxLines

\* C21: no task runs more than once, and only accepted tasks run; the
\* destructor has returned only with the queue empty, every thread exited
\* and every accepted task run once; a thread exits only after stop_ (so
\* not by a task's exception); a submit call made with stop_ set is
\* rejected and leaves the queue alone, and no other call is rejected;
\* and every accepted task is eventually run, by one thread.
C21_PoolRunsEachOnce ==
    /\ [](\A id \in TaskIds :
            /\ Len(cx.ran[id]) <= 1
            /\ Len(cx.ran[id]) = 1 => id \in cx.acc)
    /\ [](cx.dt = "done"
            => /\ q_ = <<>>
               /\ \A t \in Threads : cx.th[t].pc = "exited"
               /\ \A id \in cx.acc : Len(cx.ran[id]) = 1)
    /\ [](\A t \in Threads : cx.th[t].pc = "exited" => cx.stop_)
    /\ [][/\ cx'.rej # cx.rej => (cx.stop_ /\ q_' = q_ /\ cx'.acc = cx.acc)
          /\ (cx'.calls # cx.calls /\ cx.stop_) => cx'.rej # cx.rej
          /\ \A t \in Threads :
               (cx.th[t].pc = "run" /\ cx.th[t].job.throws /\ cx'.th[t] # cx.th[t])
                  => cx'.th[t].pc = "lock"]_vars
    /\ \A id \in TaskIds : (id \in cx.acc) ~> (Len(cx.ran[id]) = 1)

\* the destructor has returned; when it began a task was still queued; a
\* task threw; a submit call made after stop_ was rejected
C21_Witness ==
    /\ cx.pc = "pool" /\ cx.dt = "done"
    /\ cx.atstop > 0
    /\ cx.caught # {}
    /\ cx.rej # {}
    /\ \A id \in cx.acc : Len(cx.ran[id]) = 1

\* a step of the event loop thread
ELStep == el' # el \/ nextInst' # nextInst \/ budget' # budget

=============================================================================
